---- MODULE Spec2Model ----
(***************************************************************************)
(* The port-forward worker of localizer (package proxier): the single      *)
(* goroutine that owns the map of active port-forwards, the IP pool and    *)
(* the hosts file, the per-tunnel goroutines that re-enqueue a recreate    *)
(* when ForwardPorts returns, and the producers of the request channel.    *)
(* Every handler (CreatePortForward, DeletePortForward) runs to completion *)
(* inside one step of the worker, as Start runs it.                        *)
(***************************************************************************)
EXTENDS Integers, Sequences, FiniteSets, TLC

\* ------------------------------------------------------------------ bounds

\* Capacity of reqChan in the model (1024 in NewPortForwarder).
ChanCap == 2
\* Number of PortForwarder objects that may be created in one run.
MaxTunnels == 2
\* Number of requests the producers send in one run.
MaxRequests == 3
\* Last instant time.Now() may return.
MaxTime == 1
\* Number of services added to the Proxier.
MaxServices == 2
\* Number of calls of Proxier.Proxy.
MaxProxyCalls == 2

\* ------------------------------------------------------- program constants

\* isStable: time.Second*2
StableAfter == 2
\* defaultIP := "127.0.0.1": the first address of the prefix.
DefaultIP == 1
\* len(conn.IP) == 0, the net.IP{} of a record without address.
NoIP == 0
\* conn.pf == nil
NoTunnel == 0

\* ------------------------------------------------------------------ inputs

\* opts.IPCidr, as the number of addresses of the prefix: with 127.0.0.1
\* taken, one address or two are left for port-forwards.
IPCidrs == {2, 3}
\* ServiceInfo.Key() of the services the producers ask for.
Keys == {"ns/a", "ns/b"}
\* req.Endpoint == nil, and the zero PodInfo of a record.
NoPod == "none"
PodName == "ns/pod-1"
\* The hostnames and ports the producers publish for a service.
HostnamesFor == [k \in Keys |-> IF k = "ns/a" THEN <<"a", "a.ns">> ELSE <<"b">>]
PortsFor == [k \in Keys |-> IF k = "ns/a" THEN <<"8080:8080">> ELSE <<"80:8081">>]

PortForwardStatusRunning == "running"
PortForwardStatusWaiting == "waiting"
PortForwardStatusRecreating == "recreating"

\* The errors a handler returns to Start ("" is a nil error).
NoError == ""
ErrDuplicate == "already have a port-forward for this service"
ErrAllocate == "failed to allocate IP"
ErrIPLink == "failed to create ip link"
ErrAddHost == "failed to add host entry"
ErrSave == "failed to save host changes"
ErrUpgrade == "failed to upgrade connection"
ErrPortForward == "failed to create port-forward"
ErrStop == "stop errors"

\* The error ForwardPorts returns when the stream ends ("nil" for none), and
\* what fmt.Sprintf("%v", err) makes of an error.
StreamErrors == {"stream closed"}
Sprintf(err) == IF err = "nil" THEN "<nil>" ELSE err

VARIABLES
  portForwards,   \* w.portForwards: service key -> *PortForwardConnection
  ippool,         \* w.ippool: the addresses acquired from the prefix
  ipCidr,         \* w.ipCidr: the prefix, as its number of addresses
  dns,            \* w.dns: the managed section of the hosts file, ip -> hostnames
  reqChan,        \* w.reqChan
  doneChan,       \* w.doneChan: "open" or "closed"
  lastTouchTime,  \* w.lastTouchTime
  ctxDone,        \* ctx.Done() is closed
  pc,             \* position of Start: "running", "stopping", "returned", "panicked"
  tunnels,        \* the PortForwarder objects with the goroutine that runs each
  sends,          \* how many requests the producers have sent
  proxier         \* the Proxier of the same package, with the position of Proxy

vars == <<portForwards, ippool, ipCidr, dns, reqChan, doneChan, lastTouchTime,
          ctxDone, pc, tunnels, sends, proxier>>

\* The variables of the port-forward worker.
workerVars == <<portForwards, ippool, ipCidr, dns, reqChan, doneChan,
                lastTouchTime, ctxDone, pc, tunnels, sends>>

\* ------------------------------------------------------------------ IP pool

\* The addresses of the prefix that AcquireIP may still hand out.
FreeIPs(pool, cidr) == (1..cidr) \ pool

\* The smallest element of a non-empty set of numbers.
Min(S) == CHOOSE x \in S : \A y \in S : x <= y

\* An AcquireIP that hands out the first address after 127.0.0.1 whether it
\* is held or not.
AcquireIPAlreadyHeld(pool, cidr) == Min((1..cidr) \ {DefaultIP})

\* ipam.AcquireIP: first fit within the prefix.
AcquireIP(pool, cidr) == Min(FreeIPs(pool, cidr))

\* ipam.ReleaseIPFromPrefix: the address returns to the free set.
ReleaseIPFromPrefix(pool, ip) == pool \ {ip}

\* --------------------------------------------------------------- hosts file

\* hostsfile.AddHosts: append or replace the single line of ip.
AddHosts(hosts, ip, names) ==
  [a \in DOMAIN hosts \cup {ip} |-> IF a = ip THEN names ELSE hosts[a]]

\* hostsfile.RemoveAddress: delete the line of ip.
RemoveAddress(hosts, ip) == [a \in DOMAIN hosts \ {ip} |-> hosts[a]]

\* ------------------------------------------------------------------ tunnels

\* portforward.NewOnAddresses followed by go func() { fw.ForwardPorts() ... }:
\* a new PortForwarder whose goroutine captured req.
NewTunnel(req) ==
  [Service |-> req.Service, Hostnames |-> req.Hostnames, Ports |-> req.Ports,
   closed |-> 0, task |-> "forwarding", err |-> "nil"]

\* conn.pf.Close(): counts to two, a second Close closes closed listeners.
Close(tun, id) ==
  [tun EXCEPT ![id].closed = IF @ < 2 THEN @ + 1 ELSE @]

\* ------------------------------------------------------- endpoint resolver

\* What Endpoints(ns).Get may answer: an error, or the addresses of the
\* subsets in order, each with its TargetRef (nil, or a kind and a name).
NilRef == [Kind |-> "nil", Name |-> NoPod]
EndpointAnswers ==
  { [err |-> TRUE, addrs |-> <<>>],
    [err |-> FALSE, addrs |-> <<>>],
    [err |-> FALSE, addrs |-> <<NilRef, [Kind |-> "Node", Name |-> "ns/node-1"]>>],
    [err |-> FALSE, addrs |-> <<NilRef, [Kind |-> "Pod", Name |-> PodName]>>] }

\* The loop of getPodForService: the first address whose TargetRef is a Pod.
RECURSIVE FirstPod(_)
FirstPod(addrs) ==
  IF addrs = <<>> THEN NoPod
  ELSE IF Head(addrs).Kind = "nil" THEN FirstPod(Tail(addrs))
  ELSE IF Head(addrs).Kind # "Pod" THEN FirstPod(Tail(addrs))
  ELSE Head(addrs).Name

\* getPodForService: NoPod stands for every returned error.
getPodForService(answer) ==
  IF answer.err THEN NoPod ELSE FirstPod(answer.addrs)

\* ----------------------------------------------------------------- requests

CreatePortForwardRequest(k, endpoint, recreate, reason) ==
  [kind |-> "create", Service |-> k, Hostnames |-> HostnamesFor[k],
   Ports |-> PortsFor[k], Endpoint |-> endpoint, Recreate |-> recreate,
   RecreateReason |-> reason]

DeletePortForwardRequest(k) == [kind |-> "delete", Service |-> k]

\* The requests the producers of reqChan send.
ExternalRequests ==
  { CreatePortForwardRequest(k, e, r, "") :
      k \in Keys, e \in {NoPod, PodName}, r \in BOOLEAN }
  \cup { DeletePortForwardRequest(k) : k \in Keys }

\* The steps of a handler that the environment may fail: the steps of
\* CreatePortForward after the IP is acquired (fail names the first one that
\* fails), the answer of the endpoints API, and the steps of stopPortForward
\* that report an error (ifconfig -alias on darwin, dns.Save). A step of
\* stopPortForward that fails only adds to errs, so one set serves every call
\* of stopPortForward a handler makes.
CreateFailures == {"none", ErrIPLink, ErrAddHost, ErrSave, ErrUpgrade, ErrPortForward}
StopSteps == {"alias", "save"}
\* Every step of stopPortForward whose error is appended to errs: ifconfig
\* -alias, ReleaseIPFromPrefix, RemoveAddress, Save.
AllStopSteps == {"alias", "ip", "hosts", "save"}
Envs ==
  { e \in [fail : CreateFailures, answer : EndpointAnswers, stopErrs : SUBSET StopSteps] :
      \* the answer decides the outcome only when CreatePortForward gets as far
      \* as the resolver, the errors of stopPortForward only when it returns them
      /\ e.fail \notin {"none", ErrPortForward} => e.answer = [err |-> TRUE, addrs |-> <<>>]
      /\ e.fail # "none" => e.stopErrs = {} }

\* --------------------------------------------------------------- the worker

\* The fields of the worker a handler reads and writes; err is the handler's
\* return value and panic tells that it did not return.
WorkerState ==
  [pfs |-> portForwards, pool |-> ippool, dns |-> dns, tun |-> tunnels,
   touch |-> lastTouchTime, err |-> NoError, panic |-> FALSE]

\* w.portForwards[key]: the nil pointer for a key the map does not hold.
NilConn == [nil |-> TRUE]
Lookup(pfs, key) == IF key \in DOMAIN pfs THEN pfs[key] ELSE NilConn

\* w.portForwards[key] = conn
Store(pfs, key, conn) ==
  [k \in DOMAIN pfs \cup {key} |-> IF k = key THEN conn ELSE pfs[k]]

\* delete(w.portForwards, key)
Remove(pfs, key) == [k \in DOMAIN pfs \ {key} |-> pfs[k]]

\* w.touch()
touch(w, time) == [w EXCEPT !.touch = time]

\* isStable that asks for more than two seconds.
isStableAfterMoreThan(last, time) == time - last > StableAfter

\* w.isStable()
isStable(last, time) == time - last >= StableAfter

\* setPortForwardConnectionStatus
setPortForwardConnectionStatus(w, key, status, reason) ==
  IF key \notin DOMAIN w.pfs THEN w
  ELSE [w EXCEPT !.pfs[key].Status = status, !.pfs[key].StatusReason = reason]

\* stopPortForward that forgets the IP without ReleaseIPFromPrefix.
stopPortForwardNoRelease(w, conn, stopErrs) ==
  LET hasIP == conn.IP # NoIP IN
  [w |-> [w EXCEPT !.tun = IF conn.pf # NoTunnel THEN Close(@, conn.pf) ELSE @,
                   !.dns = IF hasIP THEN RemoveAddress(@, conn.IP) ELSE @],
   conn |-> [conn EXCEPT !.IP = NoIP],
   errs |-> IF hasIP THEN stopErrs ELSE {}]

\* stopPortForward that leaves the line of the IP in the hosts file.
stopPortForwardNoRemoveAddress(w, conn, stopErrs) ==
  LET hasIP == conn.IP # NoIP IN
  [w |-> [w EXCEPT !.tun = IF conn.pf # NoTunnel THEN Close(@, conn.pf) ELSE @,
                   !.pool = IF hasIP THEN ReleaseIPFromPrefix(@, conn.IP) ELSE @],
   conn |-> [conn EXCEPT !.IP = NoIP],
   errs |-> IF hasIP THEN stopErrs ELSE {}]

\* stopPortForward on a non-nil conn: the worker after it, the record conn
\* points to after it, and the errors collected.
stopPortForward(w, conn, stopErrs) ==
  LET tun1 == IF conn.pf # NoTunnel THEN Close(w.tun, conn.pf) ELSE w.tun
      hasIP == conn.IP # NoIP
      errs == IF hasIP
              THEN stopErrs \cup (IF conn.IP \notin w.pool THEN {"release"} ELSE {})
              ELSE {}
  IN  [w |-> [w EXCEPT !.tun = tun1,
                       !.pool = IF hasIP THEN ReleaseIPFromPrefix(@, conn.IP) ELSE @,
                       !.dns = IF hasIP THEN RemoveAddress(@, conn.IP) ELSE @],
       conn |-> [conn EXCEPT !.IP = NoIP],
       errs |-> errs]

\* stopPortForward that removes the hosts entry and the alias before it
\* releases the IP.
stopPortForwardTraceHostsFirst(w, conn, stopErrs) ==
  LET w1 == [w EXCEPT !.tun = IF conn.pf # NoTunnel THEN Close(@, conn.pf) ELSE @]
      w2 == [w1 EXCEPT !.dns = RemoveAddress(@, conn.IP)]
      w3 == [w2 EXCEPT !.pool = ReleaseIPFromPrefix(@, conn.IP)]
  IN  (IF conn.pf # NoTunnel
       THEN <<[step |-> "tunnel", w |-> w1, errs |-> {}]>> ELSE << >>)
      \o (IF conn.IP # NoIP
          THEN <<[step |-> "hosts", w |-> w2, errs |-> {}],
                 [step |-> "save", w |-> w2, errs |-> stopErrs \cap {"save"}],
                 [step |-> "alias", w |-> w2, errs |-> stopErrs \cap {"save", "alias"}],
                 [step |-> "ip", w |-> w3, errs |-> stopErrs]>>
          ELSE << >>)

\* stopPortForward that returns at the first step that fails.
stopPortForwardTraceReturnsAtFirstError(w, conn, stopErrs) ==
  LET w1 == [w EXCEPT !.tun = IF conn.pf # NoTunnel THEN Close(@, conn.pf) ELSE @]
      w2 == [w1 EXCEPT !.pool = ReleaseIPFromPrefix(@, conn.IP)]
      w3 == [w2 EXCEPT !.dns = RemoveAddress(@, conn.IP)]
      E(S) == stopErrs \cap S
      all == <<[step |-> "alias", w |-> w1, errs |-> E({"alias"})],
               [step |-> "ip", w |-> IF "ip" \in stopErrs THEN w1 ELSE w2,
                errs |-> E({"alias", "ip"})],
               [step |-> "hosts", w |-> IF "hosts" \in stopErrs THEN w2 ELSE w3,
                errs |-> E({"alias", "ip", "hosts"})],
               [step |-> "save", w |-> w3, errs |-> stopErrs]>>
      failing == {i \in 1..4 : all[i].step \in stopErrs}
      upto == IF failing = {} THEN 4 ELSE Min(failing)
  IN  (IF conn.pf # NoTunnel
       THEN <<[step |-> "tunnel", w |-> w1, errs |-> {}]>> ELSE << >>)
      \o (IF conn.IP # NoIP THEN SubSeq(all, 1, upto) ELSE << >>)

\* stopPortForward statement by statement: the worker and the errors
\* collected after conn.pf.Close(), after ifconfig -alias (where the platform
\* has aliases), after ReleaseIPFromPrefix, after RemoveAddress and after
\* Save. stopErrs names the steps that fail: a step that fails is reported
\* and changes nothing.
stopPortForwardTrace(w, conn, stopErrs) ==
  LET w1 == [w EXCEPT !.tun = IF conn.pf # NoTunnel THEN Close(@, conn.pf) ELSE @]
      w2 == IF "ip" \in stopErrs THEN w1
            ELSE [w1 EXCEPT !.pool = ReleaseIPFromPrefix(@, conn.IP)]
      w3 == IF "hosts" \in stopErrs THEN w2
            ELSE [w2 EXCEPT !.dns = RemoveAddress(@, conn.IP)]
      E(S) == stopErrs \cap S
  IN  (IF conn.pf # NoTunnel
       THEN <<[step |-> "tunnel", w |-> w1, errs |-> {}]>> ELSE << >>)
      \o (IF conn.IP # NoIP
          THEN <<[step |-> "alias", w |-> w1, errs |-> E({"alias"})],
                 [step |-> "ip", w |-> w2, errs |-> E({"alias", "ip"})],
                 [step |-> "hosts", w |-> w3, errs |-> E({"alias", "ip", "hosts"})],
                 [step |-> "save", w |-> w3, errs |-> stopErrs]>>
          ELSE << >>)

\* The order in which CreatePortForward acquires: AcquireIP, ifconfig alias,
\* AddHosts with Save, NewOnAddresses.
AcquisitionOrder == <<"ip", "alias", "hosts", "tunnel">>

\* A CreatePortForward without the deferred cleanup.
FailedNoCleanup(w, pf, err, env) == [w EXCEPT !.err = err]

\* The deferred function of CreatePortForward, run when it returns err:
\* stopPortForward(pf), whose own error goes to the log only.
Failed(w, pf, err, env) ==
  [stopPortForward(w, pf, env.stopErrs).w EXCEPT !.err = err]

\* CreatePortForward from pf := &PortForwardConnection{...} on.
CreateConnection(w, req, env, cidr) ==
  LET pf0 == [Service |-> req.Service, Pod |-> NoPod, IP |-> NoIP,
              Ports |-> req.Ports, Hostnames |-> <<>>,
              Status |-> PortForwardStatusRunning, StatusReason |-> "",
              pf |-> NoTunnel]
  IN
  IF FreeIPs(w.pool, cidr) = {} THEN Failed(w, pf0, ErrAllocate, env)
  ELSE
  LET ip == AcquireIP(w.pool, cidr)
      w1 == [w EXCEPT !.pool = @ \cup {ip}]
      pf1 == [pf0 EXCEPT !.IP = ip]
      pf2 == [pf1 EXCEPT !.Hostnames = req.Hostnames]
      w2 == [w1 EXCEPT !.dns = AddHosts(@, ip, req.Hostnames)]
      pod == IF req.Endpoint = NoPod THEN getPodForService(env.answer)
             ELSE req.Endpoint
  IN
  IF env.fail = ErrIPLink THEN Failed(w1, pf1, ErrIPLink, env)
  ELSE IF env.fail = ErrAddHost THEN Failed(w1, pf2, ErrAddHost, env)
  ELSE IF env.fail = ErrSave THEN Failed(w2, pf2, ErrSave, env)
  ELSE IF env.fail = ErrUpgrade THEN Failed(w2, pf2, ErrUpgrade, env)
  ELSE IF pod # NoPod THEN
    LET pf3 == [pf2 EXCEPT !.Pod = pod] IN
    IF env.fail = ErrPortForward THEN Failed(w2, pf3, ErrPortForward, env)
    ELSE
      LET tun1 == Append(w2.tun, NewTunnel(req))
          pf4 == [pf3 EXCEPT !.pf = Len(tun1)]
      IN  [w2 EXCEPT !.tun = tun1, !.pfs = Store(@, req.Service, pf4)]
  ELSE
    LET pf5 == [pf2 EXCEPT !.Status = PortForwardStatusWaiting,
                           !.StatusReason = "No endpoints were found."]
        s == stopPortForward(w2, pf5, env.stopErrs)
    IN  IF s.errs # {} THEN Failed(s.w, s.conn, ErrStop, env)
        ELSE [s.w EXCEPT !.pfs = Store(@, req.Service, s.conn)]

\* The duplicate check that only knows running port-forwards.
AlreadyManagedWhenRunning(pfs, req) ==
  /\ req.Service \in DOMAIN pfs
  /\ pfs[req.Service].Status = PortForwardStatusRunning
  /\ ~req.Recreate

\* The check `_, ok := w.portForwards[serviceKey]; ok && !req.Recreate`.
AlreadyManaged(pfs, req) == req.Service \in DOMAIN pfs /\ ~req.Recreate

\* stopPortForward(ctx, w.portForwards[serviceKey]) dereferences its
\* argument: a nil pointer panics.
StopPanics(conn) == conn = NilConn

\* CreatePortForward
CreatePortForward(w, req, env, cidr, time) ==
  IF AlreadyManaged(w.pfs, req) THEN [w EXCEPT !.err = ErrDuplicate]
  ELSE
  LET w1 == touch(w, time) IN
  IF ~req.Recreate THEN CreateConnection(w1, req, env, cidr)
  ELSE
    LET w2 == setPortForwardConnectionStatus(
                w1, req.Service, PortForwardStatusRecreating, req.RecreateReason)
        conn == Lookup(w2.pfs, req.Service)
    IN  IF StopPanics(conn) THEN [w2 EXCEPT !.panic = TRUE]
        ELSE
          LET s == stopPortForward(w2, conn, env.stopErrs)
              w3 == [s.w EXCEPT !.pfs[req.Service] = s.conn]
          IN  CreateConnection(w3, req, env, cidr)

\* The check `w.portForwards[serviceKey] == nil` of DeletePortForward.
NothingToDelete(pfs, key) == Lookup(pfs, key) = NilConn

\* DeletePortForward that only forgets the record.
DeletePortForwardNoStop(w, key, stopErrs, time) ==
  IF NothingToDelete(w.pfs, key) THEN w
  ELSE [touch(w, time) EXCEPT !.pfs = Remove(@, key)]

\* DeletePortForward that touches before it looks for the record.
DeletePortForwardTouchFirst(w, key, stopErrs, time) ==
  LET w1 == touch(w, time) IN
  IF NothingToDelete(w1.pfs, key) THEN w1
  ELSE LET s == stopPortForward(w1, w1.pfs[key], stopErrs)
       IN  [s.w EXCEPT !.pfs = Remove(@, key)]

\* DeletePortForward that stops the record and leaves it in the map.
DeletePortForwardKeepsRecord(w, key, stopErrs, time) ==
  IF NothingToDelete(w.pfs, key) THEN w
  ELSE
    LET w1 == touch(w, time)
        s == stopPortForward(w1, w1.pfs[key], stopErrs)
    IN  [s.w EXCEPT !.pfs[key] = s.conn]

\* DeletePortForward: it returns nil on every path.
DeletePortForward(w, key, stopErrs, time) ==
  IF NothingToDelete(w.pfs, key) THEN w
  ELSE
    LET w1 == touch(w, time)
        s == stopPortForward(w1, w1.pfs[key], stopErrs)
    IN  [s.w EXCEPT !.pfs = Remove(@, key)]

\* -------------------------------------------------------------- the proxier

\* The services a caller may Add: namespace, name and the local ports of
\* its port pairs.
Namespaces == {"n1", "n2"}
Names == {"a", "b"}
PortLists == {<<8080>>, <<8080, 9090>>}
Services == [Namespace : Namespaces, Name : Names, Ports : PortLists]

\* NewProxier: no service, no active port; Proxy has not been called. pos is
\* the position of Proxy, i and j the service and the port its loops are at,
\* log the line the last step wrote, running the local ports whose
\* ForwardPorts has not returned.
NewProxier ==
  [s |-> << >>, active |-> << >>, pos |-> "idle", i |-> 0, j |-> 0,
   calls |-> 0, log |-> "none", running |-> {}]

\* The condition under which Proxy warns that a port is taken.
Warns(owner, svc) == owner.Name # svc.Name /\ owner.Namespace # svc.Namespace

\* p.active[port.LocalPort] = conn
Activate(active, port, svc) ==
  [q \in DOMAIN active \cup {port} |->
     IF q = port THEN [Port |-> port, Service |-> svc] ELSE active[q]]

\* The port the inner loop of Proxy is at.
PortAt(p) == p.s[p.i].Ports[p.j]

\* ------------------------------------------------------------------ actions

Init ==
  /\ portForwards = << >>
  /\ ipCidr \in IPCidrs
  /\ ippool = {DefaultIP}
  /\ dns = << >>
  /\ reqChan = << >>
  /\ doneChan = "open"
  /\ lastTouchTime = 0
  /\ ctxDone = FALSE
  /\ pc = "running"
  /\ tunnels = << >>
  /\ sends = 0
  /\ proxier = NewProxier

\* The process is gone once a goroutine has panicked.
Alive == pc # "panicked"

\* What time.Now() may return to a handler: the clock does not run backwards.
Times == lastTouchTime..MaxTime

\* The worker takes what a handler returned.
Adopt(r) ==
  /\ portForwards' = r.pfs
  /\ ippool' = r.pool
  /\ dns' = r.dns
  /\ tunnels' = r.tun
  /\ lastTouchTime' = r.touch

\* Start takes the request at the head of reqChan: case req := <-w.reqChan.
HandlesRequest ==
  /\ pc = "running"
  /\ reqChan # << >>
  /\ reqChan' = Tail(reqChan)

\* A producer sends a request; the send blocks while the channel is full.
Send(req) ==
  /\ Alive
  /\ sends < MaxRequests
  /\ Len(reqChan) < ChanCap
  /\ reqChan' = Append(reqChan, req)
  /\ sends' = sends + 1
  /\ UNCHANGED <<proxier, portForwards, ippool, ipCidr, dns, doneChan, lastTouchTime,
                 ctxDone, pc, tunnels>>

\* Start, case req := <-w.reqChan with a CreatePortForwardRequest.
HandleCreate ==
  /\ pc = "running"
  /\ reqChan # << >>
  /\ Head(reqChan).kind = "create"
  /\ \E env \in Envs, time \in Times :
       LET r == CreatePortForward(WorkerState, Head(reqChan), env, ipCidr, time) IN
         /\ Len(r.tun) <= MaxTunnels
         /\ Adopt(r)
         /\ pc' = IF r.panic THEN "panicked" ELSE "running"
  /\ reqChan' = Tail(reqChan)
  /\ UNCHANGED <<proxier, ipCidr, doneChan, ctxDone, sends>>

\* Start, case req := <-w.reqChan with a DeletePortForwardRequest.
HandleDelete ==
  /\ pc = "running"
  /\ reqChan # << >>
  /\ Head(reqChan).kind = "delete"
  /\ \E stopErrs \in SUBSET StopSteps, time \in Times :
       Adopt(DeletePortForward(WorkerState, Head(reqChan).Service, stopErrs, time))
  /\ reqChan' = Tail(reqChan)
  /\ UNCHANGED <<proxier, ipCidr, doneChan, ctxDone, pc, sends>>

\* Start, case <-ctx.Done(): one round of the loop over w.portForwards.
ShutdownDelete(key) ==
  /\ pc \in {"running", "stopping"}
  /\ ctxDone
  /\ key \in DOMAIN portForwards
  /\ \E stopErrs \in SUBSET StopSteps, time \in Times :
       Adopt(DeletePortForward(WorkerState, portForwards[key].Service, stopErrs, time))
  /\ pc' = "stopping"
  /\ UNCHANGED <<proxier, ipCidr, reqChan, doneChan, ctxDone, sends>>

\* Start, case <-ctx.Done(): close(w.doneChan) and return, after the loop.
CloseDone ==
  /\ pc \in {"running", "stopping"}
  /\ ctxDone
  /\ DOMAIN portForwards = {}
  /\ doneChan' = IF doneChan = "open" THEN "closed" ELSE "closed twice"
  /\ pc' = "returned"
  /\ UNCHANGED <<proxier, portForwards, ippool, ipCidr, dns, reqChan, lastTouchTime,
                 ctxDone, tunnels, sends>>

\* The caller cancels the worker's context.
Cancel ==
  /\ Alive
  /\ ~ctxDone
  /\ ctxDone' = TRUE
  /\ UNCHANGED <<proxier, portForwards, ippool, ipCidr, dns, reqChan, doneChan,
                 lastTouchTime, pc, tunnels, sends>>

\* The goroutine that sends the recreate whatever ctx.Done() says.
AfterForwardPortsNoSelect(done, err) == [task |-> "sending", err |-> err]

\* What the goroutine of a tunnel does when ForwardPorts has returned err:
\* the select on ctx.Done().
AfterForwardPorts(done, err) ==
  IF done THEN [task |-> "exited", err |-> "nil"]
  ELSE [task |-> "sending", err |-> err]

\* fw.ForwardPorts() returns in the goroutine of tunnel t (the stream ended,
\* or ctx.Done() stopped it), and the goroutine looks at ctx.Done().
TunnelExit(t) ==
  /\ Alive
  /\ t \in DOMAIN tunnels
  /\ tunnels[t].task = "forwarding"
  /\ \E err \in StreamErrors :
       LET a == AfterForwardPorts(ctxDone, err) IN
         tunnels' = [tunnels EXCEPT ![t].task = a.task, ![t].err = a.err]
  /\ UNCHANGED <<proxier, portForwards, ippool, ipCidr, dns, reqChan, doneChan,
                 lastTouchTime, ctxDone, pc, sends>>

\* The request the goroutine of a tunnel sends.
RecreateRequest(tun) ==
  [kind |-> "create", Service |-> tun.Service, Hostnames |-> tun.Hostnames,
   Ports |-> tun.Ports, Endpoint |-> NoPod, Recreate |-> TRUE,
   RecreateReason |-> Sprintf(tun.err)]

\* w.reqChan <- PortForwardRequest{...} in the goroutine of tunnel t.
TunnelSend(t) ==
  /\ Alive
  /\ t \in DOMAIN tunnels
  /\ tunnels[t].task = "sending"
  /\ Len(reqChan) < ChanCap
  /\ reqChan' = Append(reqChan, RecreateRequest(tunnels[t]))
  /\ tunnels' = [tunnels EXCEPT ![t].task = "exited", ![t].err = "nil"]
  /\ UNCHANGED <<proxier, portForwards, ippool, ipCidr, dns, doneChan, lastTouchTime,
                 ctxDone, pc, sends>>

Next ==
  \/ \E req \in ExternalRequests : Send(req)
  \/ HandleCreate
  \/ HandleDelete
  \/ \E key \in Keys : ShutdownDelete(key)
  \/ CloseDone
  \/ Cancel
  \/ \E t \in 1..MaxTunnels : TunnelExit(t)
  \/ \E t \in 1..MaxTunnels : TunnelSend(t)

Spec == Init /\ [][Next]_vars

\* ------------------------------------------------------ proxier actions

\* Proxier.Add, while Proxy is not running.
Add(svc) ==
  /\ proxier.pos \in {"idle", "returned"}
  /\ Len(proxier.s) < MaxServices
  /\ proxier' = [proxier EXCEPT !.s = Append(@, svc)]
  /\ UNCHANGED workerVars

\* A caller calls Proxy: the loop over p.s starts.
ProxyCall ==
  /\ proxier.pos \in {"idle", "returned"}
  /\ proxier.calls < MaxProxyCalls
  /\ proxier' = [proxier EXCEPT !.pos = "service", !.i = 1, !.j = 0,
                                !.calls = @ + 1, !.log = "none"]
  /\ UNCHANGED workerVars

\* Proxy, top of the outer loop: the service is fetched, its pod is found and
\* is running, or the service is skipped with an error in the log.
ProxyService ==
  /\ proxier.pos = "service"
  /\ proxier.i <= Len(proxier.s)
  /\ \E found \in BOOLEAN :
       proxier' = IF found
                  THEN [proxier EXCEPT !.pos = "port", !.j = 1, !.log = "none"]
                  ELSE [proxier EXCEPT !.i = @ + 1, !.log = "error"]
  /\ UNCHANGED workerVars

\* Proxy, one round of the loop over s.Ports, up to the call of conn.Start:
\* a port that is active is skipped, with or without warning; another one is
\* marked active and conn.Start is called, which returns an error at once or
\* runs ForwardPorts.
ProxyPort ==
  /\ proxier.pos = "port"
  /\ proxier.j <= Len(proxier.s[proxier.i].Ports)
  /\ LET svc == proxier.s[proxier.i]
         port == PortAt(proxier)
     IN  IF port \in DOMAIN proxier.active
         THEN proxier' = [proxier EXCEPT
                !.log = IF Warns(proxier.active[port].Service, svc)
                        THEN "warn" ELSE "none",
                !.j = @ + 1]
         ELSE \E started \in BOOLEAN :
                proxier' = IF started
                  THEN [proxier EXCEPT
                          !.active = Activate(@, port, svc),
                          !.pos = "forwarding", !.running = @ \cup {port},
                          !.log = "info"]
                  ELSE [proxier EXCEPT
                          !.active = Activate(@, port, svc),
                          !.log = "error", !.j = @ + 1]
  /\ UNCHANGED workerVars

\* fw.ForwardPorts() returns in conn.Start (the stream ended or ctx was
\* cancelled): Proxy logs the error, if any, and goes to the next port.
ProxyTunnelEnds ==
  /\ proxier.pos = "forwarding"
  /\ \E failed \in BOOLEAN :
       proxier' = [proxier EXCEPT
                     !.running = @ \ {PortAt(proxier)},
                     !.pos = "port", !.j = @ + 1,
                     !.log = IF failed THEN "error" ELSE "none"]
  /\ UNCHANGED workerVars

\* Proxy, end of the loop over s.Ports: on to the next service.
ProxyPortsDone ==
  /\ proxier.pos = "port"
  /\ proxier.j > Len(proxier.s[proxier.i].Ports)
  /\ proxier' = [proxier EXCEPT !.pos = "service", !.i = @ + 1, !.j = 0]
  /\ UNCHANGED workerVars

\* Proxy, end of the loop over p.s: return nil.
ProxyReturn ==
  /\ proxier.pos = "service"
  /\ proxier.i > Len(proxier.s)
  /\ proxier' = [proxier EXCEPT !.pos = "returned", !.i = 0]
  /\ UNCHANGED workerVars

\* A Proxier next to a worker that nobody uses.
ProxyInit ==
  /\ portForwards = << >>
  /\ ipCidr = Min(IPCidrs)
  /\ ippool = {DefaultIP}
  /\ dns = << >>
  /\ reqChan = << >>
  /\ doneChan = "open"
  /\ lastTouchTime = 0
  /\ ctxDone = FALSE
  /\ pc = "running"
  /\ tunnels = << >>
  /\ sends = 0
  /\ proxier = NewProxier

ProxyNext ==
  \/ \E svc \in Services : Add(svc)
  \/ ProxyCall
  \/ ProxyService
  \/ ProxyPort
  \/ ProxyTunnelEnds
  \/ ProxyPortsDone
  \/ ProxyReturn

ProxySpec == ProxyInit /\ [][ProxyNext]_vars

\* ------------------------------------------------------------- fair runs

\* The loop of Start keeps taking requests: weak fairness of the two
\* handling actions, written out. A handling step is enabled exactly when
\* Start is in its select with a request in reqChan, and the handling steps
\* are the steps that take the head off reqChan.
WorkerKeepsRunning ==
  \/ []<>(~(pc = "running" /\ reqChan # << >>))
  \/ []<><<HandlesRequest>>_vars

\* The worker's loop keeps taking requests, and a goroutine blocked in a send
\* on reqChan is served once there is room (blocked senders queue up).
FairSpec ==
  /\ Spec
  /\ WorkerKeepsRunning
  /\ \A t \in 1..MaxTunnels : SF_vars(TunnelSend(t))

\* A step of the case <-ctx.Done() of Start: a round of its loop, or the
\* close of doneChan.
ShutdownStep ==
  /\ ctxDone
  /\ pc \in {"running", "stopping"}
  /\ pc' \in {"stopping", "returned"}

\* The select of Start takes the case <-ctx.Done() once it stays ready (Go
\* chooses among the ready cases at random), and the loop over the map goes
\* on until the map is empty: weak fairness of the steps of the shutdown.
FairShutdownSpec ==
  /\ Spec
  /\ WF_vars(CloseDone)
  /\ \A key \in Keys : WF_vars(ShutdownDelete(key))

\* ---------------------------------------------------------------- notions

\* The worker is between requests: in the select of Start.
BetweenRequests == pc = "running"

\* The step left the worker as the handler result r says.
Matches(r) ==
  /\ portForwards' = r.pfs
  /\ ippool' = r.pool
  /\ dns' = r.dns
  /\ tunnels' = r.tun
  /\ lastTouchTime' = r.touch
  /\ pc' = IF r.panic THEN "panicked" ELSE "running"

\* The non-empty IPs held by the records of the active map.
HeldIPs == {portForwards[k].IP : k \in DOMAIN portForwards} \ {NoIP}

\* The IPs acquired from the pool and not released, 127.0.0.1 aside.
AcquiredIPs == ippool \ {DefaultIP}

\* The managed entries of the hosts file, and the entries the records of
\* the active map call for.
HostsEntries == {<<ip, dns[ip]>> : ip \in DOMAIN dns}
RecordEntries ==
  {<<portForwards[k].IP, portForwards[k].Hostnames>> :
     k \in {j \in DOMAIN portForwards : portForwards[j].IP # NoIP}}

\* Tunnel t was opened for service k and has been closed.
ClosedTunnelOf(t, k) ==
  t \in DOMAIN tunnels /\ tunnels[t].Service = k /\ tunnels[t].closed >= 1

\* ------------------------------------------------------------------ claims

\* C1: between requests, the non-empty IPs held by the records of the active
\* map are exactly the IPs acquired from the pool and not yet released
\* (127.0.0.1, acquired at construction, aside).
C1_HeldIPsAreAcquiredIPs == BetweenRequests => HeldIPs = AcquiredIPs

\* C1 witness: a record holds an IP while another record's IP has been
\* released again (its tunnel was closed by stopPortForward).
C1_Witness ==
  /\ BetweenRequests
  /\ \E k \in DOMAIN portForwards : portForwards[k].IP # NoIP
  /\ \E t \in DOMAIN tunnels : tunnels[t].closed >= 1

\* C2: between requests, the managed hosts-file entries are exactly the
\* (IP, Hostnames) of the records with a non-empty IP, and no service has
\* more than one line.
C2_HostsEntriesAreRecordEntries ==
  BetweenRequests =>
    /\ HostsEntries = RecordEntries
    /\ \A k \in Keys :
         Cardinality({ip \in DOMAIN dns : dns[ip] = HostnamesFor[k]}) <= 1

\* C2 witness: a service runs on its second tunnel, after a recreate closed
\* the first one, and has its line in the hosts file.
C2_Witness ==
  /\ BetweenRequests
  /\ \E k \in DOMAIN portForwards :
       /\ portForwards[k].Status = PortForwardStatusRunning
       /\ portForwards[k].IP \in DOMAIN dns
       /\ \E t \in DOMAIN tunnels : t # portForwards[k].pf /\ ClosedTunnelOf(t, k)

\* C3: once the context is cancelled and doneChan is closed, the active map
\* and the managed section of the hosts file are empty, the free set of the
\* pool is the one right after construction, and every tunnel opened during
\* the run has been closed exactly once.
C3_ShutdownReleasesExactlyOnce ==
  (ctxDone /\ doneChan = "closed") =>
    /\ DOMAIN portForwards = {}
    /\ DOMAIN dns = {}
    /\ FreeIPs(ippool, ipCidr) = FreeIPs({DefaultIP}, ipCidr)
    /\ \A t \in DOMAIN tunnels : tunnels[t].closed = 1

\* Start handles a create request with Recreate=true for a key without record.
RecreatesAbsentKey ==
  /\ HandlesRequest
  /\ Head(reqChan).kind = "create"
  /\ Head(reqChan).Recreate
  /\ Head(reqChan).Service \notin DOMAIN portForwards

\* C4: a create request with Recreate=true for a key without record is a
\* no-op: the worker goes on serving, no record is registered and no IP,
\* hosts entry or tunnel is acquired.
C4_RecreateOfAbsentKeyIsNoOp ==
  [][RecreatesAbsentKey =>
       /\ pc' = "running"
       /\ UNCHANGED <<portForwards, ippool, dns, tunnels>>]_vars

\* The request at the head of reqChan is a create with Recreate=false for a
\* key that has a record.
DuplicateAtHead ==
  /\ pc = "running"
  /\ reqChan # << >>
  /\ Head(reqChan).kind = "create"
  /\ ~Head(reqChan).Recreate
  /\ Head(reqChan).Service \in DOMAIN portForwards

\* C5: a create with Recreate=false for a key that has a record, whatever its
\* status, returns the duplicate error and leaves the records (tunnel handles
\* and tunnels included), the IP pool and the hosts file as they were.
C5_DuplicateCreateChangesNothing ==
  [][(DuplicateAtHead /\ HandlesRequest) =>
       /\ UNCHANGED <<portForwards, ippool, dns, tunnels>>
       /\ pc' = "running"
       /\ \A env \in Envs :
            CreatePortForward(WorkerState, Head(reqChan), env, ipCidr,
                              lastTouchTime).err = ErrDuplicate]_vars

\* C5 witness: a duplicate create is about to be handled for a key whose
\* record is Recreating and keeps a tunnel handle, while a record holds an IP.
C5_Witness ==
  /\ DuplicateAtHead
  /\ portForwards[Head(reqChan).Service].Status = PortForwardStatusRecreating
  /\ portForwards[Head(reqChan).Service].pf # NoTunnel
  /\ \E k \in DOMAIN portForwards : portForwards[k].IP # NoIP

\* C6: from every state between requests without a record for k, a create for
\* k that succeeds followed by a delete for k leaves the active map without
\* k, the pool as it was before the create, and the hosts file without a line
\* for the IP the record held.
C6_CreateThenDeleteRestores ==
  BetweenRequests =>
    \A k \in Keys \ DOMAIN portForwards :
      \A e \in {NoPod, PodName}, env \in Envs :
        LET c == CreatePortForward(WorkerState,
                   CreatePortForwardRequest(k, e, FALSE, ""), env, ipCidr,
                   lastTouchTime)
        IN  (c.err = NoError /\ ~c.panic) =>
              /\ k \in DOMAIN c.pfs
              /\ \A stopErrs \in SUBSET StopSteps :
                   LET d == DeletePortForward(c, k, stopErrs, lastTouchTime) IN
                     /\ k \notin DOMAIN d.pfs
                     /\ d.pool = ippool
                     /\ c.pfs[k].IP \notin DOMAIN d.dns
                     /\ d.dns = dns

\* C6 witness: a key has no record, the pool and the hosts file are as
\* constructed, and a tunnel opened for the key has been closed: a create for
\* the key succeeded and a delete followed.
C6_Witness ==
  /\ BetweenRequests
  /\ ippool = {DefaultIP}
  /\ DOMAIN dns = {}
  /\ \E k \in Keys \ DOMAIN portForwards :
       \E t \in DOMAIN tunnels : ClosedTunnelOf(t, k) /\ tunnels[t].closed = 1

\* The request at the head of reqChan is a delete for a key without record.
DeleteOfAbsentKeyAtHead ==
  /\ pc = "running"
  /\ reqChan # << >>
  /\ Head(reqChan).kind = "delete"
  /\ Head(reqChan).Service \notin DOMAIN portForwards

\* C7: a delete for a key without record returns nil and changes neither the
\* active map, nor the pool, nor the hosts file, nor lastTouchTime.
C7_DeleteOfAbsentKeyChangesNothing ==
  [][(DeleteOfAbsentKeyAtHead /\ HandlesRequest) =>
       /\ UNCHANGED <<portForwards, ippool, dns, tunnels, lastTouchTime>>
       /\ pc' = "running"
       /\ \A stopErrs \in SUBSET StopSteps, time \in Times :
            DeletePortForward(WorkerState, Head(reqChan).Service, stopErrs,
                              time).err = NoError]_vars

\* C7 witness: a delete for a key without record is about to be handled while
\* another key has a record and the clock can still move lastTouchTime.
C7_Witness ==
  /\ DeleteOfAbsentKeyAtHead
  /\ DOMAIN portForwards # {}
  /\ lastTouchTime < MaxTime

\* The endpoints API answers no Pod and no step of CreatePortForward fails.
FindsNoEndpoint(env) ==
  env.fail = "none" /\ getPodForService(env.answer) = NoPod

\* C8: when a create request carries no Endpoint and the resolver, once
\* asked, finds no backing instance, the request returns nil and leaves a
\* record for the key that is Waiting with reason "No endpoints were found.",
\* without IP and without tunnel handle, nothing more acquired from the pool
\* and no hosts entry for the service.
C8_NoEndpointRegistersWaiting ==
  [][\A env \in Envs, time \in Times :
       (/\ HandlesRequest
        /\ Head(reqChan).kind = "create"
        /\ Head(reqChan).Endpoint = NoPod
        /\ FindsNoEndpoint(env)
        /\ LET r == CreatePortForward(WorkerState, Head(reqChan), env, ipCidr, time)
           IN  \* the handler got as far as the resolver
               ~r.panic /\ r.err \notin {ErrDuplicate, ErrAllocate} /\ Matches(r))
       =>
       LET k == Head(reqChan).Service
           r == CreatePortForward(WorkerState, Head(reqChan), env, ipCidr, time)
       IN  /\ r.err = NoError
           /\ k \in DOMAIN portForwards'
           /\ portForwards'[k].Status = PortForwardStatusWaiting
           /\ portForwards'[k].StatusReason = "No endpoints were found."
           /\ portForwards'[k].IP = NoIP
           /\ portForwards'[k].pf = NoTunnel
           /\ ippool' \subseteq ippool
           /\ \A ip \in DOMAIN dns' : dns'[ip] # Head(reqChan).Hostnames]_vars

\* The tunnel of this create fails to open: portforward.NewOnAddresses
\* returns an error for the pod that was found.
OpenFails(env, r) ==
  env.fail = ErrPortForward /\ ~r.panic /\ r.err = ErrPortForward

\* Something is left that sends or has sent a recreate for service k: a
\* request in reqChan, or the goroutine of a tunnel of k that has not ended.
RecreateOnItsWay(k, chan, tun) ==
  \/ \E i \in DOMAIN chan :
       chan[i].kind = "create" /\ chan[i].Service = k /\ chan[i].Recreate
  \/ \E t \in DOMAIN tun :
       tun[t].Service = k /\ tun[t].task \in {"forwarding", "sending"}

TaskOf(t) == IF t \in DOMAIN tunnels THEN tunnels[t].task ELSE "none"

\* What one step does to the goroutine of tunnel t.
TunnelTaskSteps(t) ==
  LET before == tunnels[t]
      after == tunnels'[t]
  IN  \* ForwardPorts returns under a cancelled context: nothing is sent
      /\ (before.task = "forwarding" /\ ctxDone) =>
            after.task # "sending" /\ (after.task = "exited" => reqChan' = reqChan)
      \* ForwardPorts returns otherwise: the goroutine goes on to send
      /\ (before.task = "forwarding" /\ ~ctxDone /\ after.task # "forwarding") =>
            after.task = "sending" /\ after.err \in StreamErrors
      \* the send: a recreate for the service of the tunnel, with the
      \* hostnames and ports of its create and the error as reason
      /\ (before.task = "sending" /\ after.task # "sending") =>
            reqChan' = Append(reqChan,
              [kind |-> "create", Service |-> before.Service,
               Hostnames |-> HostnamesFor[before.Service],
               Ports |-> PortsFor[before.Service], Endpoint |-> NoPod,
               Recreate |-> TRUE, RecreateReason |-> Sprintf(before.err)])

C10_HandleIffRunning ==
  BetweenRequests =>
    \A k \in DOMAIN portForwards :
      /\ portForwards[k].Status = PortForwardStatusRunning
           => portForwards[k].pf # NoTunnel
      /\ portForwards[k].Status \in {PortForwardStatusWaiting, PortForwardStatusRecreating}
           => portForwards[k].pf = NoTunnel

\* The shutdown loop dropped the record of key k after stopPortForward ran
\* for it: its IP is back in the pool and its tunnel has seen one more Close.
StoppedAndDropped(k) ==
  LET conn == portForwards[k] IN
    /\ k \notin DOMAIN portForwards'
    /\ conn.IP # NoIP => conn.IP \notin ippool' /\ conn.IP \notin DOMAIN dns'
    /\ conn.pf # NoTunnel =>
         tunnels'[conn.pf].closed = (IF tunnels[conn.pf].closed < 2
                                     THEN tunnels[conn.pf].closed + 1 ELSE 2)

\* C11: after the context is cancelled doneChan is eventually closed, it is
\* closed once only, and it is closed only when the shutdown loop has run
\* the stop procedure for every record of the map and dropped it.
C11_DoneChanEventuallyClosedOnce ==
  /\ ctxDone ~> (doneChan = "closed")
  /\ [](doneChan # "closed twice")
  /\ [][doneChan' # doneChan =>
          doneChan = "open" /\ doneChan' = "closed" /\ DOMAIN portForwards = {}]_vars
  /\ [][(ShutdownStep /\ portForwards' # portForwards) =>
          \E k \in DOMAIN portForwards :
            /\ StoppedAndDropped(k)
            /\ \A j \in DOMAIN portForwards \ {k} :
                 j \in DOMAIN portForwards' /\ portForwards'[j] = portForwards[j]]_vars

\* Start handles a request of this kind for key k.
HandlesRequestFor(kind, k) ==
  /\ HandlesRequest
  /\ Head(reqChan).kind = kind
  /\ Head(reqChan).Service = k

\* C12: reqChan is first in, first out, and Start handles its head. A delete
\* for a key leaves the key without record; a key without record gets one
\* only when a create with Recreate=false for it is handled; and such a
\* create for a key without record is not rejected as a duplicate. So a
\* create that follows a delete for its key finds no record, whatever
\* tunnel-exit recreate for the key arrives in between.
C12_CreateAfterDeleteFindsNoRecord ==
  /\ [][reqChan' # reqChan =>
          \/ HandlesRequest
          \/ \E i \in DOMAIN reqChan' :
               /\ Len(reqChan') = Len(reqChan) + 1
               /\ i = Len(reqChan')
               /\ \A j \in DOMAIN reqChan : reqChan'[j] = reqChan[j]]_vars
  /\ [][\A k \in Keys :
          /\ HandlesRequestFor("delete", k) => k \notin DOMAIN portForwards'
          /\ (k \notin DOMAIN portForwards /\ k \in DOMAIN portForwards') =>
               HandlesRequestFor("create", k) /\ ~Head(reqChan).Recreate
          /\ (HandlesRequestFor("create", k) /\ ~Head(reqChan).Recreate
                /\ k \notin DOMAIN portForwards) =>
               \A env \in Envs :
                 CreatePortForward(WorkerState, Head(reqChan), env, ipCidr,
                                   lastTouchTime).err # ErrDuplicate]_vars

\* C12 witness: the record of a key was deleted (its tunnel is closed and the
\* key has no record), a create with Recreate=false for the key is next, and
\* the goroutine of the closed tunnel is about to enqueue its recreate.
C12_Witness ==
  /\ pc = "running"
  /\ reqChan # << >>
  /\ Head(reqChan).kind = "create"
  /\ ~Head(reqChan).Recreate
  /\ Head(reqChan).Service \notin DOMAIN portForwards
  /\ \E t \in DOMAIN tunnels :
       /\ ClosedTunnelOf(t, Head(reqChan).Service)
       /\ tunnels[t].task = "sending"

\* The instants at which another goroutine may call isStable(): from the last
\* touch to two seconds after the last instant a handler may run.
ObservationTimes == lastTouchTime..(MaxTime + StableAfter)

\* The steps of Start that run a handler past its early return: a create
\* that passes the duplicate check, a delete of a key with a record (from
\* reqChan or in the shutdown loop).
TouchingStep ==
  \/ /\ HandlesRequest
     /\ Head(reqChan).kind = "create"
     /\ ~AlreadyManaged(portForwards, Head(reqChan))
  \/ /\ HandlesRequest
     /\ Head(reqChan).kind = "delete"
     /\ Head(reqChan).Service \in DOMAIN portForwards
  \/ /\ ShutdownStep
     /\ portForwards' # portForwards

\* C13: isStable() is true exactly from two seconds after the last touch on;
\* lastTouchTime changes only in a create that passes the duplicate check or
\* a delete of a key with a record, and each of these sets it to the time of
\* the call, while a duplicate create and a delete of an absent key leave it.
C13_StableTwoSecondsAfterLastTouch ==
  /\ [](\A now \in ObservationTimes :
          isStable(lastTouchTime, now) <=> now >= lastTouchTime + 2)
  /\ [][lastTouchTime' # lastTouchTime => TouchingStep]_vars
  /\ []((pc = "running" /\ reqChan # << >>) =>
          LET req == Head(reqChan) IN
          \A time \in Times :
            IF req.kind = "create"
            THEN \A env \in Envs :
                   CreatePortForward(WorkerState, req, env, ipCidr, time).touch
                     = (IF req.Service \in DOMAIN portForwards /\ ~req.Recreate
                        THEN lastTouchTime ELSE time)
            ELSE \A stopErrs \in SUBSET StopSteps :
                   DeletePortForward(WorkerState, req.Service, stopErrs, time).touch
                     = (IF req.Service \in DOMAIN portForwards
                        THEN time ELSE lastTouchTime))

\* C13 witness: a handler has moved lastTouchTime past the time of
\* construction, isStable() is still false now and true two seconds later,
\* and a request that does not touch is next.
C13_Witness ==
  /\ lastTouchTime > 0
  /\ ~isStable(lastTouchTime, lastTouchTime + 1)
  /\ isStable(lastTouchTime, lastTouchTime + 2)
  /\ lastTouchTime + 2 \in ObservationTimes
  /\ DuplicateAtHead

\* C14: when a create with Recreate=true has been handled to completion, no
\* record of the active map has status Recreating.
C14_RecreatingIsTransient ==
  [][(/\ HandlesRequest
      /\ Head(reqChan).kind = "create"
      /\ Head(reqChan).Recreate
      /\ pc' = "running")
     => \A k \in DOMAIN portForwards' :
          portForwards'[k].Status # PortForwardStatusRecreating]_vars

\* A sequence back to front.
Reverse(seq) == [i \in 1..Len(seq) |-> seq[Len(seq) + 1 - i]]

\* The resources in the order a run of stopPortForward releases them (the
\* save of the hosts file belongs to the removal of the entry).
ReleaseOrder(trace) ==
  LET named == [i \in 1..Len(trace) |-> trace[i].step]
      Keep(x) == x # "save"
  IN  SelectSeq(named, Keep)

\* The records stopPortForward has resources to release for.
RecordsWithIP == {k \in DOMAIN portForwards : portForwards[k].IP # NoIP}

\* C15 as stated: stopPortForward releases in the reverse of the order of
\* acquisition (tunnel, hosts entry, alias, IP), and at no point of it is the
\* IP back in the pool while its hosts entry is still present.
C15_StopReleasesInReverseOrder ==
  BetweenRequests =>
    \A k \in RecordsWithIP, stopErrs \in SUBSET StopSteps :
      LET conn == portForwards[k]
          trace == stopPortForwardTrace(WorkerState, conn, stopErrs)
      IN  /\ conn.pf # NoTunnel => ReleaseOrder(trace) = Reverse(AcquisitionOrder)
          /\ \A i \in DOMAIN trace :
               conn.IP \notin trace[i].w.pool => conn.IP \notin DOMAIN trace[i].w.dns

\* C15 amended: stopPortForward closes the tunnel first and then, for a
\* record with an IP, removes the alias, releases the IP, removes the hosts
\* entry and saves the hosts file, whatever step fails; the IP is back in the
\* pool before its hosts entry is removed, and both are gone when
\* stopPortForward returns.
C15_StopReleasesTunnelThenIPThenHosts ==
  BetweenRequests =>
    \A k \in RecordsWithIP, stopErrs \in SUBSET StopSteps :
      LET conn == portForwards[k]
          trace == stopPortForwardTrace(WorkerState, conn, stopErrs)
          last == trace[Len(trace)].w
      IN  /\ ReleaseOrder(trace) =
               (IF conn.pf # NoTunnel THEN <<"tunnel">> ELSE << >>)
                 \o <<"alias", "ip", "hosts">>
          /\ last = stopPortForward(WorkerState, conn, stopErrs).w
          /\ conn.IP \notin last.pool /\ conn.IP \notin DOMAIN last.dns
          /\ \A i \in DOMAIN trace :
               /\ conn.pf # NoTunnel => trace[i].w.tun[conn.pf].closed >= 1
               /\ trace[i].step \in {"tunnel", "alias"} =>
                    conn.IP \in trace[i].w.pool /\ conn.IP \in DOMAIN trace[i].w.dns
               /\ trace[i].step = "ip" =>
                    conn.IP \notin trace[i].w.pool /\ conn.IP \in DOMAIN trace[i].w.dns

\* C15 witness: two records hold an IP and a tunnel each, so that
\* stopPortForward has a tunnel, an IP and a hosts entry to release for one
\* while the other keeps its own.
C15_Witness ==
  /\ BetweenRequests
  /\ Cardinality(RecordsWithIP) = 2
  /\ \A k \in RecordsWithIP :
       portForwards[k].pf # NoTunnel /\ portForwards[k].IP \in DOMAIN dns

\* C16: a create that fails after the duplicate check retains nothing: the
\* pool holds no address and the hosts file no entry beyond those held
\* before, no tunnel was opened, and with Recreate=false the records, the
\* pool and the hosts file are as before the request (no record for the key).
C16_FailedCreateRetainsNothing ==
  BetweenRequests =>
    \A req \in {r \in ExternalRequests : r.kind = "create"}, env \in Envs :
      LET c == CreatePortForward(WorkerState, req, env, ipCidr, lastTouchTime) IN
        (~c.panic /\ c.err \notin {NoError, ErrDuplicate}) =>
          /\ c.pool \subseteq ippool
          /\ \A ip \in DOMAIN c.dns : ip \in DOMAIN dns /\ c.dns[ip] = dns[ip]
          /\ Len(c.tun) = Len(tunnels)
          /\ ~req.Recreate =>
               /\ req.Service \notin DOMAIN c.pfs
               /\ c.pfs = portForwards
               /\ c.pool = ippool
               /\ c.dns = dns

\* C16 witness: the one request sent so far was handled past the duplicate
\* check (it touched) and the worker went on, yet no record, address, hosts
\* entry or tunnel is left: a create that failed.
C16_Witness ==
  /\ BetweenRequests
  /\ sends = 1
  /\ reqChan = << >>
  /\ lastTouchTime > 0
  /\ DOMAIN portForwards = {}
  /\ ippool = {DefaultIP}
  /\ DOMAIN dns = {}
  /\ tunnels = << >>

\* The steps a run of stopPortForward went through, in order.
StepsOf(trace) == [i \in 1..Len(trace) |-> trace[i].step]

\* C17: for a record with an IP, stopPortForward goes through the removal of
\* the alias, the release of the IP, the removal of the hosts entry and the
\* save whatever steps fail; the error it returns names exactly the steps
\* that failed and every step that did not fail took effect; and a delete
\* whose stopPortForward reported errors still drops the key and returns nil.
C17_StopAttemptsEveryStep ==
  BetweenRequests =>
    \A k \in RecordsWithIP :
      LET conn == portForwards[k] IN
      /\ \A failing \in SUBSET AllStopSteps :
           LET trace == stopPortForwardTrace(WorkerState, conn, failing)
               last == trace[Len(trace)]
           IN  /\ StepsOf(trace) =
                    (IF conn.pf # NoTunnel THEN <<"tunnel">> ELSE << >>)
                      \o <<"alias", "ip", "hosts", "save">>
               /\ last.errs = failing
               /\ "ip" \notin failing => conn.IP \notin last.w.pool
               /\ "hosts" \notin failing => conn.IP \notin DOMAIN last.w.dns
               /\ conn.pf # NoTunnel => last.w.tun[conn.pf].closed >= 1
      /\ \A stopErrs \in SUBSET StopSteps, time \in Times :
           LET s == stopPortForward(WorkerState, conn, stopErrs)
               d == DeletePortForward(WorkerState, k, stopErrs, time)
           IN  /\ s.errs = stopErrs
               /\ s.w = stopPortForwardTrace(WorkerState, conn, stopErrs)
                          [Len(stopPortForwardTrace(WorkerState, conn, stopErrs))].w
               /\ k \notin DOMAIN d.pfs
               /\ d.err = NoError
               /\ d.pool = s.w.pool /\ d.dns = s.w.dns /\ d.tun = s.w.tun

\* C17 witness: a delete is next for a key whose record holds an IP, a hosts
\* entry and a tunnel, while another record holds its own.
C17_Witness ==
  /\ pc = "running"
  /\ reqChan # << >>
  /\ Head(reqChan).kind = "delete"
  /\ Head(reqChan).Service \in RecordsWithIP
  /\ portForwards[Head(reqChan).Service].pf # NoTunnel
  /\ portForwards[Head(reqChan).Service].IP \in DOMAIN dns
  /\ Cardinality(RecordsWithIP) = 2

\* What the worker holds for key b is the same before and after the step:
\* the record with all its fields, its address in the pool, its line in the
\* hosts file and its tunnel.
KeepsAllOf(b) ==
  /\ b \in DOMAIN portForwards <=> b \in DOMAIN portForwards'
  /\ b \in DOMAIN portForwards =>
       LET conn == portForwards[b] IN
         /\ portForwards'[b] = conn
         /\ conn.IP # NoIP =>
              /\ conn.IP \in ippool /\ conn.IP \in ippool'
              /\ conn.IP \in DOMAIN dns /\ conn.IP \in DOMAIN dns'
              /\ dns'[conn.IP] = dns[conn.IP]
         /\ conn.pf # NoTunnel => tunnels'[conn.pf] = tunnels[conn.pf]

AtActivePort ==
  /\ proxier.pos = "port"
  /\ proxier.j <= Len(proxier.s[proxier.i].Ports)
  /\ PortAt(proxier) \in DOMAIN proxier.active

\* C19: when Proxy comes to a local port that is already active, the port
\* keeps its owner, and the warning is written exactly when the owner is
\* another service than the one asking (another namespace or another name).
C19_WarnsExactlyWhenOwnerDiffers ==
  [][(AtActivePort /\ proxier' # proxier) =>
       LET owner == proxier.active[PortAt(proxier)].Service
           svc == proxier.s[proxier.i]
       IN  /\ proxier'.active = proxier.active
           /\ proxier'.log = "warn" <=>
                (owner.Namespace # svc.Namespace \/ owner.Name # svc.Name)]_vars

\* C20: Proxier.Proxy does not wait for tunnels. While a tunnel that Proxy
\* started is running, Proxy is not held inside conn.Start for it: Proxy goes
\* on to the next port, or has returned, with the tunnel running next to it.
\* A step in which a tunnel terminates is therefore never the step that lets
\* Proxy move on.
ProxyWaitsInStart ==
  /\ proxier.pos = "forwarding"
  /\ PortAt(proxier) \in proxier.running

C20_ProxyDoesNotWaitForTunnels ==
  proxier.running # {} => ~ProxyWaitsInStart

\* The request Start is about to handle is a recreate that the goroutine of a
\* tunnel sent (a producer's request carries no reason), and the record of its
\* key owns another tunnel: one whose ForwardPorts still runs and that nobody
\* closed, so that its goroutine has sent nothing.
StaleRecreateAtHead ==
  /\ pc = "running"
  /\ reqChan # << >>
  /\ Head(reqChan).kind = "create"
  /\ Head(reqChan).Recreate
  /\ Head(reqChan).RecreateReason \in {Sprintf(err) : err \in StreamErrors}
  /\ Head(reqChan).Service \in DOMAIN portForwards
  /\ LET conn == portForwards[Head(reqChan).Service] IN
       /\ conn.pf # NoTunnel
       /\ tunnels[conn.pf].task = "forwarding"
       /\ tunnels[conn.pf].closed = 0

\* C21: a recreate enqueued by the exit of a tunnel T tears down only the
\* record that owned T. When it is handled while the record of its key owns
\* a newer, healthy tunnel, that record keeps its tunnel handle, its IP and
\* its hosts entry, and the newer tunnel is not closed.
C21_StaleRecreateLeavesNewerRecord ==
  [][(StaleRecreateAtHead /\ HandlesRequest) =>
       LET k == Head(reqChan).Service
           conn == portForwards[k]
       IN  /\ k \in DOMAIN portForwards'
           /\ portForwards'[k].pf = conn.pf
           /\ portForwards'[k].IP = conn.IP
           /\ tunnels'[conn.pf].closed = 0
           /\ conn.IP # NoIP =>
                /\ conn.IP \in ippool'
                /\ conn.IP \in DOMAIN dns'
                /\ dns'[conn.IP] = dns[conn.IP]]_vars

====
